---------------------------- MODULE Spec2Model ----------------------------
(***************************************************************************)
(* Startup configuration of ncmpcpp: src/src/configuration.cpp.            *)
(*                                                                         *)
(* configure(argc, argv) is modelled as a sequential state machine, one    *)
(* action per stage of the function body; expand_home and xdg_config_home  *)
(* are operators computed as the code computes them.  Strings are TLA+     *)
(* strings (Len, SubSeq and \o work on them); a C pointer or an optional   *)
(* value that may be absent is a set with at most one element: {} is       *)
(* nullptr / "not given", {v} is the value v.                              *)
(***************************************************************************)
EXTENDS Integers, Sequences, FiniteSets, TLC

VARIABLES
    argv,          \* the command line: the options given and their tokens
    pc,            \* position inside configure()
    outcome,       \* "running", "return_true", "return_false", "exit_1", "abort"
    xdg,           \* what getenv("XDG_CONFIG_HOME") returned (line 45)
    default_config_paths,  \* line 68
    vm,            \* po::variables_map (line 89)
    env_home,      \* the file-scope pointer of line 40
    home_writes,   \* number of assignments to env_home so far
    config_paths,  \* line 74
    bindings_path, \* line 73
    files,         \* what Config.read found behind each config path
    Config,        \* the settings object filled by Config.read
    Mpd,           \* the server connection object
    mpd_env,       \* what getenv("MPD_HOST") / getenv("MPD_PORT") returned
    Bindings,      \* the bindings object: path read, result, defaults generated
    effects,       \* the stages with outside effects executed so far
    out,           \* what was written to cout / cerr
    path,          \* argument of a stand-alone expand_home call
    applied        \* results of the stand-alone expand_home calls so far

vars == <<argv, pc, outcome, xdg, default_config_paths, vm, env_home,
          home_writes, config_paths, bindings_path, files, Config, Mpd,
          mpd_env, Bindings, effects, out, path, applied>>

---------------------------------------------------------------------------
(* Bounds of the model. *)

\* At most this many options on the command line.
MaxArgs == 3
\* Longest path handed to a stand-alone expand_home call.
MaxPathLen == 3

---------------------------------------------------------------------------
(* Optional values. *)

Null == {}
Some(v) == {v}
Get(o) == CHOOSE v \in o : TRUE
IsNull(o) == o = {}

---------------------------------------------------------------------------
(* Path Resolver. *)

\* expand_home without the test for a leading '~'.
expand_home_any(p, home) ==
    IF Len(p) > 0 THEN home \o SubSeq(p, 2, Len(p)) ELSE p

\* expand_home, lines 62-63: path.replace(0, 1, env_home) when path is not
\* empty and path[0] == '~'.  home is the string env_home points to.
expand_home(p, home) ==
    IF Len(p) > 0 /\ SubSeq(p, 1, 1) = "~"
    THEN home \o SubSeq(p, 2, Len(p))
    ELSE p

\* xdg_config_home, lines 42-55; e is getenv("XDG_CONFIG_HOME").
xdg_config_home(e) ==
    IF IsNull(e) THEN "~/.config/"
    ELSE LET result == Get(e)
         IN IF Len(result) > 0 /\ SubSeq(result, Len(result), Len(result)) # "/"
            THEN result \o "/"
            ELSE result


---------------------------------------------------------------------------
(* Conversions. *)

DigitValue(c) ==
    CASE c = "0" -> 0 [] c = "1" -> 1 [] c = "2" -> 2 [] c = "3" -> 3
      [] c = "4" -> 4 [] c = "5" -> 5 [] c = "6" -> 6 [] c = "7" -> 7
      [] c = "8" -> 8 [] c = "9" -> 9 [] OTHER -> -1

RECURSIVE DigitsValue(_, _)
\* Value of the digit string s after the prefix value acc; -1 when s holds a
\* character that is no digit or the value does not fit a 32-bit int.
DigitsValue(s, acc) ==
    IF Len(s) = 0 THEN acc
    ELSE LET d == DigitValue(SubSeq(s, 1, 1))
         IN IF d < 0 \/ acc * 10 + d > 2147483647 THEN -1
            ELSE DigitsValue(SubSeq(s, 2, Len(s)), acc * 10 + d)

\* boost::lexical_cast<int>(s) as used on line 179 and by po::value<int>
\* (line 79): Null stands for the exception thrown on a malformed number.
lexical_cast_int(s) ==
    LET neg  == Len(s) > 0 /\ SubSeq(s, 1, 1) = "-"
        sign == Len(s) > 0 /\ SubSeq(s, 1, 1) \in {"-", "+"}
        body == IF sign THEN SubSeq(s, 2, Len(s)) ELSE s
        v    == DigitsValue(body, 0)
    IN IF Len(body) = 0 \/ v < 0 THEN Null
       ELSE Some(IF neg THEN 0 - v ELSE v)

\* stringtoStartupScreenType: the fixed name -> screen table.
stringtoStartupScreenType(s) ==
    CASE s = "help"     -> "Help"
      [] s = "playlist" -> "Playlist"
      [] s = "browser"  -> "Browser"
      [] OTHER          -> "Unknown"

---------------------------------------------------------------------------
(* The option surface, lines 76-87. *)

DefaultHost == "localhost"
DefaultPort == 6600
DefaultBindings == "~/.ncmpcpp/bindings"

\* The command lines explored.  Each field holds the token(s) given for that
\* option: an optional string, for config the list of paths in the order
\* given, for the switches whether they occur.  unknown stands for a flag
\* that is not declared in lines 78-86.
HostArgs     == {Null, Some("localhost"), Some("h1")}
PortArgs     == {Null, Some("6600"), Some("8000"), Some("80x")}
ConfigArgs   == {<< >>, <<"~/c1">>, <<"/etc/c1", "~/c2">>}
IgnoreArgs   == {Null, Some(TRUE)}
BindingsArgs == {Null, Some("~/.ncmpcpp/bindings"), Some("/b")}
ScreenArgs   == {Null, Some("playlist"), Some("bogus")}
SlaveArgs    == {Null, Some("browser"), Some("nosuch")}

ArgCount(a) ==
    Cardinality(a.host) + Cardinality(a.port) + Len(a.config)
    + Cardinality(a.ignore) + Cardinality(a.bindings)
    + Cardinality(a.screen) + Cardinality(a.slave)
    + (IF a.help THEN 1 ELSE 0) + (IF a.version THEN 1 ELSE 0)
    + (IF a.unknown THEN 1 ELSE 0)

CommandLines ==
    {a \in [host : HostArgs, port : PortArgs, config : ConfigArgs,
            ignore : IgnoreArgs, bindings : BindingsArgs,
            screen : ScreenArgs, slave : SlaveArgs,
            help : BOOLEAN, version : BOOLEAN, unknown : BOOLEAN] :
        ArgCount(a) <= MaxArgs}

\* po::parse_command_line and po::store (line 92) fail on an undeclared
\* flag and on a value that does not convert to the option's type.
ParseFails(a) ==
    \/ a.unknown
    \/ ~IsNull(a.port) /\ IsNull(lexical_cast_int(Get(a.port)))

\* The variables_map after a successful store: every option with a default
\* has a value and the defaulted() mark, the others only a count.
Stored(a, defaults) ==
    [stored   |-> TRUE,
     host     |-> [value |-> IF IsNull(a.host) THEN DefaultHost ELSE Get(a.host),
                   defaulted |-> IsNull(a.host)],
     port     |-> [value |-> IF IsNull(a.port) THEN DefaultPort
                             ELSE Get(lexical_cast_int(Get(a.port))),
                   defaulted |-> IsNull(a.port)],
     config   |-> [value |-> IF a.config = << >> THEN defaults ELSE a.config,
                   defaulted |-> a.config = << >>],
     ignore   |-> [value |-> IF IsNull(a.ignore) THEN FALSE ELSE Get(a.ignore),
                   defaulted |-> IsNull(a.ignore)],
     bindings |-> [value |-> IF IsNull(a.bindings) THEN DefaultBindings
                             ELSE Get(a.bindings),
                   defaulted |-> IsNull(a.bindings)],
     screen   |-> a.screen,
     slave    |-> a.slave,
     help     |-> a.help,
     version  |-> a.version]

---------------------------------------------------------------------------
(* The environment and the collaborators. *)

XdgValues     == {Null, Some("/x")}
HomeValues    == {Null, Some("/home/u")}
MpdHostValues == {Null, Some("envhost")}
MpdPortValues == {Null, Some("7000"), Some("7o")}

\* What one configuration file can hold.  exists = FALSE is a missing file,
\* valid = FALSE a file with a directive the reader rejects; the i-th file
\* of the list sets values that name i.
FileContents(i) ==
    LET none == [exists |-> TRUE, valid |-> TRUE, host |-> Null, port |-> Null,
                 dir |-> Null, screen |-> Null]
    IN {[none EXCEPT !.exists = FALSE],
        [none EXCEPT !.valid = FALSE],
        [none EXCEPT !.host = Some(IF i = 1 THEN "file1" ELSE "file2")],
        [none EXCEPT !.port = Some(6600 + i)],
        [none EXCEPT !.host = Some(IF i = 1 THEN "file1" ELSE "file2"),
                     !.port = Some(6600 + i),
                     !.dir = Some("/d/"),
                     !.screen = Some("Browser")]}

\* Mpd.SetHostname / Mpd.SetPort / Mpd.SetTimeout.
SetHostname(m, h) == [m EXCEPT !.host = h]
SetPort(m, p)     == [m EXCEPT !.port = p]
SetTimeout(m, t)  == [m EXCEPT !.timeout = t]

\* The connection object as constructed: the compiled-in defaults.
MpdInit == [host |-> "localhost", port |-> 6600, timeout |-> 0]

\* The settings object before Config.read.
ConfigInit ==
    [ncmpcpp_directory |-> "", lyrics_directory |-> "",
     startup_screen_type |-> "Playlist", startup_slave_screen_type |-> "None",
     mpd_connection_timeout |-> 0]

RECURSIVE ReadFiles(_, _, _, _)
\* Config.read over the files fs from index i on: st is <<ok, Config, Mpd>>.
\* A missing file is skipped; an invalid file fails the read unless
\* ignore_errors; the settings of a later file replace those of an earlier.
ReadFiles(fs, i, ignore_errors, st) ==
    IF i > Len(fs) \/ ~st[1] THEN st
    ELSE LET f == fs[i]
             c == st[2]
             m == st[3]
             c1 == IF IsNull(f.dir) THEN c
                   ELSE [c EXCEPT !.ncmpcpp_directory = Get(f.dir)]
             c2 == IF IsNull(f.screen) THEN c1
                   ELSE [c1 EXCEPT !.startup_screen_type = Get(f.screen)]
             m1 == IF IsNull(f.host) THEN m ELSE SetHostname(m, Get(f.host))
             m2 == IF IsNull(f.port) THEN m1 ELSE SetPort(m1, Get(f.port))
         IN IF ~f.exists THEN ReadFiles(fs, i + 1, ignore_errors, st)
            ELSE IF ~f.valid
                 THEN ReadFiles(fs, i + 1, ignore_errors, <<ignore_errors, c, m>>)
                 ELSE ReadFiles(fs, i + 1, ignore_errors, <<TRUE, c2, m2>>)

\* Config.read(config_paths, ignore_errors): the directories and the timeout
\* get their defaults, then the files are applied in list order.
ConfigReadResult(fs, ignore_errors, home, c, m) ==
    ReadFiles(fs, 1, ignore_errors,
              <<TRUE,
                [c EXCEPT !.ncmpcpp_directory = expand_home("~/.ncmpcpp/", home),
                          !.lyrics_directory = expand_home("~/.lyrics/", home),
                          !.mpd_connection_timeout = 5],
                m>>)

\* The bindings object before Bindings.read: no path read, no result, no
\* default bindings generated.
BindingsInit == [path |-> Null, result |-> Null, defaults |-> FALSE]

\* The exit status the caller of configure() gives the process.
ExitStatus(o) == IF o = "exit_1" THEN 1 ELSE 0

---------------------------------------------------------------------------
(* configure(), lines 66-219. *)

\* The sequences of file contents Config.read can meet behind n paths.
FileSeqs(n) ==
    {fs \in [1..n -> UNION {FileContents(i) : i \in 1..n}] :
        \A i \in 1..n : fs[i] \in FileContents(i)}

Init ==
    /\ argv \in CommandLines
    /\ pc = "start"
    /\ outcome = "running"
    /\ xdg = Null
    /\ default_config_paths = << >>
    /\ vm = [stored |-> FALSE]
    /\ env_home = Null
    /\ home_writes = 0
    /\ config_paths = << >>
    /\ bindings_path = ""
    /\ files = << >>
    /\ Config = ConfigInit
    /\ Mpd = MpdInit
    /\ mpd_env = [host |-> Null, port |-> Null]
    /\ Bindings = BindingsInit
    /\ effects = {}
    /\ out = << >>
    /\ path = ""
    /\ applied = << >>

\* exit(1), lines 155, 165, 197, 209.
Exit1 ==
    /\ outcome' = "exit_1"
    /\ pc' = "done"

\* The handler of lines 213-217.
Catch(what) ==
    /\ out' = Append(out, "Error while processing configuration: " \o what)
    /\ Exit1

\* The failed assertion of line 61.
AssertFails ==
    /\ outcome' = "abort"
    /\ pc' = "done"

\* Lines 68-71: the default configuration paths, before any option is read.
DefaultConfigPaths ==
    /\ pc = "start"
    /\ \E e \in XdgValues :
          /\ xdg' = e
          /\ default_config_paths' =
                <<"~/.ncmpcpp/config", xdg_config_home(e) \o "ncmpcpp/config">>
    /\ pc' = "parse"
    /\ UNCHANGED <<argv, outcome, vm, env_home, home_writes, config_paths,
                   bindings_path, files, Config, Mpd, mpd_env, Bindings,
                   effects, out, path, applied>>

\* Line 92 with the help test dropped behind it: --help wins over a bad
\* command line.
ParseCommandLineHelpFirst ==
    /\ pc = "parse"
    /\ IF ParseFails(argv) /\ ~argv.help /\ ~argv.version
       THEN /\ Catch("bad command line")
            /\ UNCHANGED vm
       ELSE /\ vm' = Stored([argv EXCEPT !.port = IF ParseFails(argv) THEN Null ELSE @],
                            default_config_paths)
            /\ pc' = "help"
            /\ UNCHANGED <<outcome, out>>
    /\ UNCHANGED <<argv, xdg, default_config_paths, env_home, home_writes,
                   config_paths, bindings_path, files, Config, Mpd, mpd_env,
                   Bindings, effects, path, applied>>

\* Line 92: po::store(po::parse_command_line(...), vm); an exception leaves
\* the try block for the handler of line 213.
ParseCommandLine ==
    /\ pc = "parse"
    /\ IF ParseFails(argv)
       THEN /\ Catch("bad command line")
            /\ UNCHANGED vm
       ELSE /\ vm' = Stored(argv, default_config_paths)
            /\ pc' = "help"
            /\ UNCHANGED <<outcome, out>>
    /\ UNCHANGED <<argv, xdg, default_config_paths, env_home, home_writes,
                   config_paths, bindings_path, files, Config, Mpd, mpd_env,
                   Bindings, effects, path, applied>>

\* Lines 94-98 without the return: the help text is printed and the run
\* goes on with line 143.
ShowHelpNoReturn ==
    /\ pc = "help"
    /\ vm.help
    /\ out' = Append(out, "Usage")
    /\ config_paths' = vm.config.value
    /\ bindings_path' = vm.bindings.value
    /\ pc' = "home"
    /\ UNCHANGED <<argv, outcome, xdg, default_config_paths, vm, env_home,
                   home_writes, files, Config, Mpd, mpd_env, Bindings,
                   effects, path, applied>>

\* Lines 94-98.
ShowHelp ==
    /\ pc = "help"
    /\ vm.help
    /\ out' = Append(out, "Usage")
    /\ outcome' = "return_false"
    /\ pc' = "done"
    /\ UNCHANGED <<argv, xdg, default_config_paths, vm, env_home, home_writes,
                   config_paths, bindings_path, files, Config, Mpd, mpd_env,
                   Bindings, effects, path, applied>>

\* Lines 99-141.
ShowVersion ==
    /\ pc = "help"
    /\ ~vm.help
    /\ vm.version
    /\ out' = Append(out, "ncmpcpp VERSION")
    /\ outcome' = "return_false"
    /\ pc' = "done"
    /\ UNCHANGED <<argv, xdg, default_config_paths, vm, env_home, home_writes,
                   config_paths, bindings_path, files, Config, Mpd, mpd_env,
                   Bindings, effects, path, applied>>

\* Line 143: po::notify stores the values bound in lines 80 and 82.
Notify ==
    /\ pc = "help"
    /\ ~vm.help
    /\ ~vm.version
    /\ config_paths' = vm.config.value
    /\ bindings_path' = vm.bindings.value
    /\ pc' = "home"
    /\ UNCHANGED <<argv, outcome, xdg, default_config_paths, vm, env_home,
                   home_writes, files, Config, Mpd, mpd_env, Bindings,
                   effects, out, path, applied>>

\* Lines 145-150 with the assignment made to a local of the same name.
GetHomeShadowed ==
    /\ pc = "home"
    /\ \E h \in HomeValues :
          IF IsNull(h)
          THEN /\ out' = Append(out, "Fatal error: HOME environment variable is not defined")
               /\ outcome' = "return_false"
               /\ pc' = "done"
          ELSE /\ pc' = "expand"
               /\ UNCHANGED <<outcome, out>>
    /\ effects' = effects \cup {"getenv_HOME"}
    /\ UNCHANGED <<argv, xdg, default_config_paths, vm, env_home, home_writes,
                   config_paths, bindings_path, files, Config, Mpd, mpd_env,
                   Bindings, path, applied>>

\* Lines 145-150: env_home = getenv("HOME"); return false when it is null.
GetHome ==
    /\ pc = "home"
    /\ \E h \in HomeValues :
          /\ env_home' = h
          /\ IF IsNull(h)
             THEN /\ out' = Append(out, "Fatal error: HOME environment variable is not defined")
                  /\ outcome' = "return_false"
                  /\ pc' = "done"
             ELSE /\ pc' = "expand"
                  /\ UNCHANGED <<outcome, out>>
    /\ home_writes' = home_writes + 1
    /\ effects' = effects \cup {"getenv_HOME"}
    /\ UNCHANGED <<argv, xdg, default_config_paths, vm, config_paths,
                   bindings_path, files, Config, Mpd, mpd_env, Bindings,
                   path, applied>>

\* Line 153: expand_home on every element of config_paths.
ExpandConfigPaths ==
    /\ pc = "expand"
    /\ IF IsNull(env_home)
       THEN /\ AssertFails
            /\ UNCHANGED <<config_paths, effects>>
       ELSE /\ config_paths' =
                  [i \in DOMAIN config_paths |->
                       expand_home(config_paths[i], Get(env_home))]
            /\ effects' = effects \cup {"expand_home"}
            /\ pc' = "read"
            /\ UNCHANGED outcome
    /\ UNCHANGED <<argv, xdg, default_config_paths, vm, env_home, home_writes,
                   bindings_path, files, Config, Mpd, mpd_env, Bindings,
                   out, path, applied>>

\* Lines 154-155: Config.read(config_paths, ignore-config-errors), exit(1)
\* when it fails.
ConfigRead ==
    /\ pc = "read"
    /\ \E fs \in FileSeqs(Len(config_paths)) :
          LET r == ConfigReadResult(fs, vm.ignore.value, Get(env_home), Config, Mpd)
          IN /\ files' = fs
             /\ Config' = r[2]
             /\ Mpd' = r[3]
             /\ IF r[1]
                THEN /\ pc' = "bindpath"
                     /\ UNCHANGED outcome
                ELSE Exit1
    /\ effects' = effects \cup {"config_read"}
    /\ UNCHANGED <<argv, xdg, default_config_paths, vm, env_home, home_writes,
                   config_paths, bindings_path, mpd_env, Bindings, out,
                   path, applied>>

\* Lines 158-161 deciding by the value of the option, not by its origin.
ResolveBindingsPathByValue ==
    /\ pc = "bindpath"
    /\ IF vm.bindings.value = DefaultBindings
       THEN /\ bindings_path' = Config.ncmpcpp_directory \o "bindings"
            /\ pc' = "bindread"
            /\ UNCHANGED <<outcome, effects>>
       ELSE /\ bindings_path' = expand_home(bindings_path, Get(env_home))
            /\ effects' = effects \cup {"expand_home"}
            /\ pc' = "bindread"
            /\ UNCHANGED outcome
    /\ UNCHANGED <<argv, xdg, default_config_paths, vm, env_home, home_writes,
                   config_paths, files, Config, Mpd, mpd_env, Bindings, out,
                   path, applied>>

\* Lines 158-161: the bindings file of the main directory unless --bindings
\* was given, and then the given path, expanded.
ResolveBindingsPath ==
    /\ pc = "bindpath"
    /\ IF vm.bindings.defaulted
       THEN /\ bindings_path' = Config.ncmpcpp_directory \o "bindings"
            /\ pc' = "bindread"
            /\ UNCHANGED <<outcome, effects>>
       ELSE IF IsNull(env_home)
            THEN /\ AssertFails
                 /\ UNCHANGED <<bindings_path, effects>>
            ELSE /\ bindings_path' = expand_home(bindings_path, Get(env_home))
                 /\ effects' = effects \cup {"expand_home"}
                 /\ pc' = "bindread"
                 /\ UNCHANGED outcome
    /\ UNCHANGED <<argv, xdg, default_config_paths, vm, env_home, home_writes,
                   config_paths, files, Config, Mpd, mpd_env, Bindings, out,
                   path, applied>>

\* Lines 164-166 with a failed read tolerated: the defaults are generated
\* and the run goes on.
BindingsReadTolerant ==
    /\ pc = "bindread"
    /\ \E ok \in BOOLEAN :
          Bindings' = [path |-> Some(bindings_path), result |-> Some(ok),
                       defaults |-> TRUE]
    /\ pc' = "mkdir"
    /\ effects' = effects \cup {"bindings_read"}
    /\ UNCHANGED <<argv, outcome, xdg, default_config_paths, vm, env_home,
                   home_writes, config_paths, bindings_path, files, Config,
                   Mpd, mpd_env, out, path, applied>>

\* Lines 164-166: Bindings.read(bindings_path), exit(1) when it fails,
\* Bindings.generateDefaults() when it succeeds.
BindingsRead ==
    /\ pc = "bindread"
    /\ \E ok \in BOOLEAN :
          /\ Bindings' = [path |-> Some(bindings_path), result |-> Some(ok),
                          defaults |-> ok]
          /\ IF ok
             THEN /\ pc' = "mkdir"
                  /\ UNCHANGED outcome
             ELSE Exit1
    /\ effects' = effects \cup {"bindings_read"}
    /\ UNCHANGED <<argv, xdg, default_config_paths, vm, env_home, home_writes,
                   config_paths, bindings_path, files, Config, Mpd, mpd_env,
                   out, path, applied>>

\* Lines 169-170: boost::filesystem::create_directory on both directories;
\* it throws when the directory cannot be created.
CreateDirectories ==
    /\ pc = "mkdir"
    /\ \E ok \in BOOLEAN :
          IF ok
          THEN /\ pc' = "env"
               /\ UNCHANGED <<outcome, out>>
          ELSE Catch("create_directory")
    /\ effects' = effects \cup {"create_directory"}
    /\ UNCHANGED <<argv, xdg, default_config_paths, vm, env_home, home_writes,
                   config_paths, bindings_path, files, Config, Mpd, mpd_env,
                   Bindings, path, applied>>

\* Lines 174-179: MPD_HOST and MPD_PORT, when set, go to the connection;
\* lexical_cast throws on a malformed MPD_PORT.
EnvOverrides ==
    /\ pc = "env"
    /\ \E h \in MpdHostValues, p \in MpdPortValues :
          LET m1   == IF IsNull(h) THEN Mpd ELSE SetHostname(Mpd, Get(h))
              cast == IF IsNull(p) THEN Null ELSE lexical_cast_int(Get(p))
          IN /\ mpd_env' = [host |-> h, port |-> p]
             /\ IF ~IsNull(p) /\ IsNull(cast)
                THEN /\ Mpd' = m1
                     /\ Catch("bad lexical cast")
                ELSE /\ Mpd' = IF IsNull(p) THEN m1 ELSE SetPort(m1, Get(cast))
                     /\ pc' = "cmdline"
                     /\ UNCHANGED <<outcome, out>>
    /\ UNCHANGED <<argv, xdg, default_config_paths, vm, env_home, home_writes,
                   config_paths, bindings_path, files, Config, Bindings,
                   effects, path, applied>>

\* The connection after lines 183-187 when the test is on the value, not on
\* the origin: a value equal to the default is taken for "not given".
ApplyCommandLineByValue(m, v, c) ==
    LET m1 == IF v.host.value # DefaultHost THEN SetHostname(m, v.host.value) ELSE m
        m2 == IF v.port.value # DefaultPort THEN SetPort(m1, v.port.value) ELSE m1
    IN SetTimeout(m2, c.mpd_connection_timeout)

\* The connection after lines 183-187 when the flags are applied always.
ApplyCommandLineAlways(m, v, c) ==
    SetTimeout(SetPort(SetHostname(m, v.host.value), v.port.value),
               c.mpd_connection_timeout)

\* The connection after lines 183-187: host and port of the command line
\* when they were given, and the timeout of the configuration.
ApplyCommandLine(m, v, c) ==
    LET m1 == IF ~v.host.defaulted THEN SetHostname(m, v.host.value) ELSE m
        m2 == IF ~v.port.defaulted THEN SetPort(m1, v.port.value) ELSE m1
    IN SetTimeout(m2, c.mpd_connection_timeout)

\* Lines 183-187.
CommandLineOverrides ==
    /\ pc = "cmdline"
    /\ Mpd' = ApplyCommandLine(Mpd, vm, Config)
    /\ effects' = effects \cup {"mpd_settimeout"}
    /\ pc' = "screen"
    /\ UNCHANGED <<argv, outcome, xdg, default_config_paths, vm, env_home,
                   home_writes, config_paths, bindings_path, files, Config,
                   mpd_env, Bindings, out, path, applied>>

\* Lines 190-199.
StartupScreen ==
    /\ pc = "screen"
    /\ IF vm.screen # {}
       THEN LET screen == Get(vm.screen)
                type   == stringtoStartupScreenType(screen)
            IN /\ Config' = [Config EXCEPT !.startup_screen_type = type]
               /\ IF type = "Unknown"
                  THEN /\ out' = Append(out, "Unknown screen: " \o screen)
                       /\ Exit1
                  ELSE /\ pc' = "slave"
                       /\ UNCHANGED <<outcome, out>>
       ELSE /\ pc' = "slave"
            /\ UNCHANGED <<Config, outcome, out>>
    /\ UNCHANGED <<argv, xdg, default_config_paths, vm, env_home, home_writes,
                   config_paths, bindings_path, files, Mpd, mpd_env, Bindings,
                   effects, path, applied>>

\* Lines 202-211 without the exit: the diagnostic is printed and the run
\* goes on.
StartupSlaveScreenNoExit ==
    /\ pc = "slave"
    /\ IF vm.slave # {}
       THEN LET screen == Get(vm.slave)
                type   == stringtoStartupScreenType(screen)
            IN /\ Config' = [Config EXCEPT !.startup_slave_screen_type = type]
               /\ out' = IF type = "Unknown"
                         THEN Append(out, "Unknown slave screen: " \o screen)
                         ELSE out
       ELSE UNCHANGED <<Config, out>>
    /\ pc' = "return"
    /\ UNCHANGED <<argv, outcome, xdg, default_config_paths, vm, env_home,
                   home_writes, config_paths, bindings_path, files, Mpd,
                   mpd_env, Bindings, effects, path, applied>>

\* Lines 202-211.
StartupSlaveScreen ==
    /\ pc = "slave"
    /\ IF vm.slave # {}
       THEN LET screen == Get(vm.slave)
                type   == stringtoStartupScreenType(screen)
            IN /\ Config' = [Config EXCEPT !.startup_slave_screen_type = type]
               /\ IF type = "Unknown"
                  THEN /\ out' = Append(out, "Unknown slave screen: " \o screen)
                       /\ Exit1
                  ELSE /\ pc' = "return"
                       /\ UNCHANGED <<outcome, out>>
       ELSE /\ pc' = "return"
            /\ UNCHANGED <<Config, outcome, out>>
    /\ UNCHANGED <<argv, xdg, default_config_paths, vm, env_home, home_writes,
                   config_paths, bindings_path, files, Mpd, mpd_env, Bindings,
                   effects, path, applied>>

\* Line 218.
ReturnTrue ==
    /\ pc = "return"
    /\ outcome' = "return_true"
    /\ pc' = "done"
    /\ UNCHANGED <<argv, xdg, default_config_paths, vm, env_home, home_writes,
                   config_paths, bindings_path, files, Config, Mpd, mpd_env,
                   Bindings, effects, out, path, applied>>

Next ==
    \/ DefaultConfigPaths
    \/ ParseCommandLine
    \/ ShowHelp
    \/ ShowVersion
    \/ Notify
    \/ GetHome
    \/ ExpandConfigPaths
    \/ ConfigRead
    \/ ResolveBindingsPath
    \/ BindingsRead
    \/ CreateDirectories
    \/ EnvOverrides
    \/ CommandLineOverrides
    \/ StartupScreen
    \/ StartupSlaveScreen
    \/ ReturnTrue

Spec == Init /\ [][Next]_vars

---------------------------------------------------------------------------
(* expand_home on its own: two calls in a row on one path. *)

\* The characters of the paths tried.
PathChars == {"~", "/", "a"}

RECURSIVE Paths(_)
\* Every path of at most n characters.
Paths(n) ==
    IF n = 0 THEN {""}
    ELSE LET shorter == Paths(n - 1)
         IN shorter \cup {p \o c : p \in shorter, c \in PathChars}

\* The values the home directory can have once resolved (not null).
ResolvedHomes == {"/home/u", "/", "", "~", "~u", "a"}

InitExpand ==
    /\ argv = [host |-> Null, port |-> Null, config |-> << >>, ignore |-> Null,
               bindings |-> Null, screen |-> Null, slave |-> Null,
               help |-> FALSE, version |-> FALSE, unknown |-> FALSE]
    /\ pc = "expand_home"
    /\ outcome = "running"
    /\ xdg = Null
    /\ default_config_paths = << >>
    /\ vm = [stored |-> FALSE]
    /\ env_home \in {Some(h) : h \in ResolvedHomes}
    /\ home_writes = 1
    /\ config_paths = << >>
    /\ bindings_path = ""
    /\ files = << >>
    /\ Config = ConfigInit
    /\ Mpd = MpdInit
    /\ mpd_env = [host |-> Null, port |-> Null]
    /\ Bindings = BindingsInit
    /\ effects = {}
    /\ out = << >>
    /\ path \in Paths(MaxPathLen)
    /\ applied = <<path>>

\* One call expand_home(path); applied keeps the values path has had.
ExpandPath ==
    /\ pc = "expand_home"
    /\ Len(applied) < 3
    /\ IF IsNull(env_home)
       THEN /\ AssertFails
            /\ UNCHANGED <<path, applied>>
       ELSE /\ path' = expand_home(path, Get(env_home))
            /\ applied' = Append(applied, path')
            /\ UNCHANGED <<pc, outcome>>
    /\ UNCHANGED <<argv, xdg, default_config_paths, vm, env_home, home_writes,
                   config_paths, bindings_path, files, Config, Mpd, mpd_env,
                   Bindings, effects, out>>

NextExpand == ExpandPath

SpecExpand == InitExpand /\ [][NextExpand]_vars

---------------------------------------------------------------------------
(* Vocabulary of the properties. *)

Done == pc = "done"

\* Lines 183-187 have been executed: the connection holds its final values.
Configured == "mpd_settimeout" \in effects

HelpGiven == argv.help \/ argv.version

HomeAbsent == "getenv_HOME" \in effects /\ IsNull(env_home)

\* The value of a setting in the last file of the list that defines it.
FileValue(fs, field) ==
    LET defining == {i \in DOMAIN fs :
                        fs[i].exists /\ fs[i].valid /\ ~IsNull(fs[i][field])}
    IN IF defining = {} THEN Null
       ELSE fs[CHOOSE i \in defining : \A j \in defining : j <= i][field]

\* default < file < environment: the value a setting has when the command
\* line does not give it.
Precedence(envValue, fileValue, default) ==
    IF ~IsNull(envValue) THEN Get(envValue)
    ELSE IF ~IsNull(fileValue) THEN Get(fileValue)
    ELSE default

\* None of the stages behind the help / version test has run.
NoLaterStage ==
    /\ effects = {}
    /\ IsNull(env_home) /\ home_writes = 0
    /\ files = << >>
    /\ Bindings = BindingsInit
    /\ Config = ConfigInit
    /\ Mpd = MpdInit

HelpOutcome ==
    /\ outcome = "return_false"
    /\ ExitStatus(outcome) = 0
    /\ out = IF argv.help THEN <<"Usage">> ELSE <<"ncmpcpp VERSION">>

UnknownScreen(o) == ~IsNull(o) /\ stringtoStartupScreenType(Get(o)) = "Unknown"

\* The settings as the configuration files alone leave them.
FileConfig ==
    ConfigReadResult(files, vm.ignore.value, Get(env_home), ConfigInit, MpdInit)[2]

StartsWithTilde(p) == Len(p) > 0 /\ SubSeq(p, 1, 1) = "~"

---------------------------------------------------------------------------
(* The properties. *)

\* C1: once configure() has set the connection, a host given with --host is
\* the connection's host and a port given with --port is its port, whatever
\* the files and MPD_HOST / MPD_PORT hold, also when the given value equals
\* the compiled-in default.
C1_CommandLineWins ==
    Configured =>
        /\ ~IsNull(argv.host) => Mpd.host = Get(argv.host)
        /\ ~IsNull(argv.port) => Some(Mpd.port) = lexical_cast_int(Get(argv.port))

\* --host localhost (the default value, given explicitly) beats MPD_HOST and
\* a file that sets the host.
C1_Witness ==
    /\ outcome = "return_true"
    /\ argv.host = Some("localhost")
    /\ ~IsNull(mpd_env.host)
    /\ ~IsNull(FileValue(files, "host"))
    /\ Mpd.host = "localhost"

\* C2: without --host (--port) the connection's host (port) is the value of
\* MPD_HOST (MPD_PORT) when that is set, else the value of the last file in
\* list order that defines it, else the compiled-in default; each setting is
\* resolved on its own.
C2_EnvThenFileThenDefault ==
    Configured =>
        /\ IsNull(argv.host) =>
              Mpd.host = Precedence(mpd_env.host, FileValue(files, "host"), "localhost")
        /\ IsNull(argv.port) =>
              Mpd.port = Precedence(IF IsNull(mpd_env.port) THEN Null
                                    ELSE lexical_cast_int(Get(mpd_env.port)),
                                    FileValue(files, "port"), 6600)

\* The port comes from the second of two files that both set it, while the
\* host comes from the environment.
C2_Witness ==
    /\ outcome = "return_true"
    /\ IsNull(argv.port) /\ IsNull(argv.host)
    /\ IsNull(mpd_env.port) /\ ~IsNull(mpd_env.host)
    /\ Len(files) = 2
    /\ files[1].port = Some(6601) /\ files[2].port = Some(6602)
    /\ Mpd.port = 6602
    /\ Mpd.host = "envhost"

\* C3 as stated: with --help or --version on the command line the run ends
\* with the help / version outcome (status 0) and no later stage runs.
C3_HelpAlwaysHelpOutcome ==
    HelpGiven => /\ NoLaterStage
                 /\ Done => HelpOutcome

\* C3 amended: with --help or --version on the command line no later stage
\* ever runs; the run ends with the help / version outcome (status 0) when
\* the command line parses, and with exit status 1 when it does not.
C3_HelpSkipsLaterStages ==
    HelpGiven => /\ NoLaterStage
                 /\ Done => IF ParseFails(argv) THEN outcome = "exit_1"
                            ELSE HelpOutcome

\* --help together with options that ask for later stages ends with the help
\* outcome.
C3_Witness ==
    /\ Done
    /\ argv.help /\ ~IsNull(argv.host) /\ ~IsNull(argv.screen)
    /\ HelpOutcome

\* C4: with HOME absent the run ends with exit status 1, an outcome that
\* differs from the one of --help / --version, before any file is read and
\* any directory is created.
C4_HomeAbsentExitsOne ==
    Done /\ HomeAbsent =>
        /\ ExitStatus(outcome) = 1
        /\ outcome # "return_false"
        /\ effects = {"getenv_HOME"}
        /\ files = << >>

\* C5 as stated, taken for the runs that reach the validation of lines
\* 189-211: an unrecognised --screen or --slave-screen value ends the run
\* with exit status 1 and a diagnostic that holds the value and says
\* primary or slave.
C5_EachUnknownScreenNamed ==
    Done /\ Configured =>
        /\ UnknownScreen(argv.screen) =>
              /\ outcome = "exit_1"
              /\ out = <<"Unknown screen: " \o Get(argv.screen)>>
        /\ UnknownScreen(argv.slave) =>
              /\ outcome = "exit_1"
              /\ out = <<"Unknown slave screen: " \o Get(argv.slave)>>

\* C5 amended: configure() never returns success with an unrecognised
\* --screen or --slave-screen value.  In a run that reaches the validation,
\* an unrecognised --screen ends it with exit status 1 and "Unknown screen:
\* <value>"; an unrecognised --slave-screen ends it with exit status 1 and
\* "Unknown slave screen: <value>" provided --screen is absent or
\* recognised (the primary screen is validated first and alone reported).
\* A recognised value becomes the setting, an absent flag leaves the
\* setting of the configuration files.
C5_FirstUnknownScreenNamed ==
    /\ UnknownScreen(argv.screen) \/ UnknownScreen(argv.slave)
          => outcome # "return_true"
    /\ Done /\ Configured =>
          /\ UnknownScreen(argv.screen) =>
                /\ outcome = "exit_1"
                /\ out = <<"Unknown screen: " \o Get(argv.screen)>>
          /\ ~UnknownScreen(argv.screen) =>
                /\ Config.startup_screen_type =
                      IF IsNull(argv.screen) THEN FileConfig.startup_screen_type
                      ELSE stringtoStartupScreenType(Get(argv.screen))
                /\ IF UnknownScreen(argv.slave)
                   THEN /\ outcome = "exit_1"
                        /\ out = <<"Unknown slave screen: " \o Get(argv.slave)>>
                   ELSE /\ outcome = "return_true"
                        /\ out = << >>
                        /\ Config.startup_slave_screen_type =
                              IF IsNull(argv.slave)
                              THEN FileConfig.startup_slave_screen_type
                              ELSE stringtoStartupScreenType(Get(argv.slave))

\* A recognised --screen and an unrecognised --slave-screen: the slave
\* diagnostic ends the run.
C5_Witness ==
    /\ Done
    /\ argv.screen = Some("playlist") /\ argv.slave = Some("nosuch")
    /\ Config.startup_screen_type = "Playlist"
    /\ outcome = "exit_1"
    /\ out = <<"Unknown slave screen: nosuch">>

\* C6 as stated: a failed Bindings.read does not end the run; the default
\* bindings are generated and the run goes on to the next stage.
C6_BindingsFailureTolerated ==
    Bindings.result = Some(FALSE) =>
        /\ Bindings.defaults
        /\ pc = "mkdir" \/ "create_directory" \in effects

\* C6 amended: a failed Bindings.read ends the run with exit status 1, as a
\* failed Config.read does, before the default bindings are generated and
\* before any directory is created; the defaults are generated only after
\* a successful read, and configure() returns success only then.
C6_BindingsFailureExits ==
    /\ Bindings.result = Some(FALSE) =>
          /\ Done /\ outcome = "exit_1" /\ ExitStatus(outcome) = 1
          /\ ~Bindings.defaults
          /\ "create_directory" \notin effects
    /\ Bindings.defaults => Bindings.result = Some(TRUE)
    /\ outcome = "return_true" => Bindings.result = Some(TRUE) /\ Bindings.defaults

\* Bindings.read failed after a successful Config.read and the run is over.
C6_Witness ==
    /\ Done
    /\ "config_read" \in effects
    /\ Bindings.result = Some(FALSE)
    /\ outcome = "exit_1"

\* C7: the path handed to Bindings.read is the main directory followed by
\* "bindings" when --bindings was not given (never the literal default
\* "~/.ncmpcpp/bindings"), and the given path with a leading '~' replaced
\* by the home directory when it was given, also when the given value
\* equals the default.
C7_BindingsPathByOrigin ==
    ~IsNull(Bindings.path) =>
        IF IsNull(argv.bindings)
        THEN /\ Get(Bindings.path) = Config.ncmpcpp_directory \o "bindings"
             /\ Get(Bindings.path) # DefaultBindings
        ELSE Get(Bindings.path) =
                IF StartsWithTilde(Get(argv.bindings))
                THEN Get(env_home) \o SubSeq(Get(argv.bindings), 2, Len(Get(argv.bindings)))
                ELSE Get(argv.bindings)

\* --bindings ~/.ncmpcpp/bindings given explicitly while the files move the
\* main directory elsewhere.
C7_Witness ==
    /\ argv.bindings = Some("~/.ncmpcpp/bindings")
    /\ Config.ncmpcpp_directory = "/d/"
    /\ Bindings.path = Some("/home/u/.ncmpcpp/bindings")

\* C8 as stated: a command line that holds --help or --version never ends
\* with a command-line error; its outcome is the help / version one.
C8_HelpBeforeParseErrors ==
    Done /\ HelpGiven => HelpOutcome

\* C8 amended: --help and --version are looked at after the whole command
\* line has been parsed and converted.  A command line that holds one of
\* them ends with the help / version outcome (--help first) when it parses,
\* and with the command-line error and exit status 1 when it also holds an
\* unknown flag or a malformed value.
C8_HelpAfterParse ==
    Done /\ HelpGiven =>
        IF ParseFails(argv)
        THEN /\ outcome = "exit_1" /\ ExitStatus(outcome) = 1
             /\ out = <<"Error while processing configuration: bad command line">>
        ELSE HelpOutcome

\* --help next to an unknown flag ends with the command-line error.
C8_Witness ==
    /\ Done
    /\ argv.help /\ argv.unknown
    /\ outcome = "exit_1"

\* C9 as stated: for every path and every home directory a second
\* expand_home gives what the first gave, and a path that is empty or does
\* not start with '~' is left as it is.
C9_ExpandIdempotent ==
    /\ Len(applied) = 3 => applied[3] = applied[2]
    /\ Len(applied) >= 2 /\ ~StartsWithTilde(applied[1]) => applied[2] = applied[1]

\* C9 amended: for every path and every home directory that is not empty
\* and does not start with '~' a second expand_home gives what the first
\* gave; for every home directory a path that is empty or does not start
\* with '~' is left as it is.
C9_ExpandIdempotentPlainHome ==
    /\ Len(applied) = 3 /\ Get(env_home) # "" /\ ~StartsWithTilde(Get(env_home))
          => applied[3] = applied[2]
    /\ Len(applied) >= 2 /\ ~StartsWithTilde(applied[1]) => applied[2] = applied[1]

\* "~/a" expanded twice with home "/home/u".
C9_Witness ==
    /\ applied = <<"~/a", "/home/u/a", "/home/u/a">>
    /\ env_home = Some("/home/u")

\* C10: no step of configure() fails the assertion of expand_home; env_home
\* is assigned at most once, is not null once a path has been expanded, and
\* does not change after the first expansion.
C10_HomeBeforeExpand ==
    [][/\ outcome' # "abort"
       /\ home_writes' <= 1
       /\ "expand_home" \in effects' => ~IsNull(env_home') /\ home_writes' = 1
       /\ "expand_home" \in effects => env_home' = env_home]_vars

\* Both kinds of expansion have run: the configuration paths and a given
\* bindings path.
C10_Witness ==
    /\ outcome = "return_true"
    /\ "expand_home" \in effects
    /\ argv.bindings = Some("~/.ncmpcpp/bindings")
    /\ argv.config = <<"~/c1">>
    /\ config_paths = <<"/home/u/c1">>
    /\ bindings_path = "/home/u/.ncmpcpp/bindings"

============================================================================
